---- MODULE Spec2Model ----
(***************************************************************************)
(* Model of the BitVault broadcast bot core: the broadcast engine          *)
(* (src/bot.js, class BitVaultTelegramBot) and the scheduling subsystem    *)
(* (src/scheduler.js, class TelegramScheduler).                            *)
(*                                                                         *)
(* JavaScript is single-threaded and cooperative: every action below is    *)
(* one run-to-completion step, i.e. the code between two awaits.  An       *)
(* async function is a record holding its position (pc) and its locals.    *)
(***************************************************************************)
EXTENDS Integers, Sequences, FiniteSets, TLC

VARIABLES
    config,         \* src/config: the values the engine and the scheduler read
    isInitialized,  \* BitVaultTelegramBot.isInitialized
    retryCount,     \* BitVaultTelegramBot.retryCount
    retryDelay,     \* BitVaultTelegramBot.retryDelay
    inits,          \* initialize() invocations in progress
    commandHandlers,\* the bot object polls for chat messages and has the
                    \* command handlers of setupCommandHandlers
    initFailed,     \* history: an initialize() call has thrown and none
                    \* has completed
    calls,          \* broadcast invocations in progress
    jobs,           \* TelegramScheduler.jobs: name -> cron task
    timers,         \* every cron task created so far (node-cron ScheduledTask)
    isRunning,      \* TelegramScheduler.isRunning
    last            \* the outcome the latest step delivered to a caller, if any

vars == <<config, isInitialized, retryCount, retryDelay, inits, initFailed,
          commandHandlers,
          calls, jobs, timers, isRunning, last>>

engineVars == <<isInitialized, retryCount, retryDelay, inits, initFailed,
                commandHandlers>>
schedVars  == <<jobs, timers, isRunning>>

----------------------------------------------------------------------------
(* Bounds of the model.                                                    *)

MaxCalls  == 2      \* broadcast invocations in progress at once
MaxInits  == 1      \* initialize() invocations in progress at once
MaxFail   == 3      \* the provider fails the first N sends, N \in 0..MaxFail
MaxTimers == 3      \* cron tasks created in one behaviour

(* Program constants.                                                      *)

DefaultRetryCount == 3
DefaultRetryDelay == 2000

----------------------------------------------------------------------------
(* JavaScript values passed as a message.  A string is its sequence of   *)
(* characters; JsNull is null, JsUndefined undefined and JsNumber a        *)
(* non-zero number.                                                        *)

Str(s)   == [type |-> "string", chars |-> s]
JsNull   == [type |-> "null", chars |-> <<>>]
JsNumber == [type |-> "number", chars |-> <<>>]
JsUndefined == [type |-> "undefined", chars |-> <<>>]

Hello  == Str(<<"H">>)
Empty  == Str(<<>>)
Blank  == Str(<<" ", " ">>)
MsgA   == Str(<<"A">>)
MsgB   == Str(<<"B">>)
DailyText == Str(<<"D">>)

\* !message
Falsy(v) ==
    CASE v.type = "string" -> Len(v.chars) = 0
      [] v.type = "null"   -> TRUE
      [] v.type = "undefined" -> TRUE
      [] OTHER             -> FALSE

\* typeof message
TypeOf(v) == IF v.type = "null" THEN "object" ELSE v.type

\* the guard of broadcastUpdate that rejects a message
RejectedMessage(message) == Falsy(message) \/ TypeOf(message) # "string"

----------------------------------------------------------------------------
(* Errors of the provider library.  body is what error.response.body      *)
(* holds: an object, a JSON string, a string that is not JSON, or nothing *)
(* (no response at all).                                                   *)

ErrorCodes == {400, 403, 429, 500, 502, 503, 504}

ApiError(code)  == [body |-> "object", code |-> code]
JsonError(code) == [body |-> "json", code |-> code]
GarbageError    == [body |-> "garbage", code |-> 0]
NetworkError    == [body |-> "none", code |-> 0]
NoError         == [body |-> "ok", code |-> 0]

ProviderErrors ==
    {ApiError(c) : c \in ErrorCodes} \cup {JsonError(429), GarbageError, NetworkError}

\* the switch of broadcastUpdate: the error each provider code is mapped to
SwitchError(code) ==
    CASE code = 400 -> "BadRequest"
      [] code = 403 -> "Forbidden"
      [] code = 429 -> "RateLimited"
      [] code \in {502, 503, 504} -> "TemporarilyUnavailable"
      [] OTHER -> "TelegramApiError"

\* what is thrown inside the inner try block of broadcastUpdate's handler:
\* JSON.parse throws on a body that is not JSON, the switch throws always
ThrownInTry(error) ==
    IF error.body = "garbage" THEN "SyntaxError" ELSE SwitchError(error.code)

\* the error broadcastUpdate raises for a failure of sendMessageWithRetry.
\* The switch throws inside the try whose catch (parseError) only logs, so
\* nothing thrown there leaves the block and the last statement throws.
BroadcastError(error) ==
    LET hasBody == error.body # "none"
        caughtByParseCatch == TRUE
    IN  IF hasBody /\ ~caughtByParseCatch
        THEN ThrownInTry(error)
        ELSE "FailedToBroadcast"

\* the same handler in verifyChannelAccess
VerifyError(error) ==
    LET hasBody == error.body # "none"
        thrown == IF error.body = "garbage" THEN "SyntaxError"
                  ELSE IF error.code = 400 THEN "InvalidChannelId"
                  ELSE IF error.code = 403 THEN "NoPermission"
                  ELSE "none"
        caughtByParseCatch == TRUE
    IN  IF hasBody /\ thrown # "none" /\ ~caughtByParseCatch
        THEN thrown
        ELSE "ChannelVerificationFailed"

----------------------------------------------------------------------------
(* Broadcast invocations.                                                  *)

Idle == [pc |-> "idle"]

\* entry is the function the caller invoked, timer the cron task whose
\* callback invoked it (0: invoked directly); pending counts the provider
\* sends of the invocation that have not settled, errors lists the errors
\* its failed sends were rejected with; user is the id of the sender whose
\* chat command invoked it (0: no command did)
NewCall(entry, timer, message, failN) ==
    [pc |-> "new", entry |-> entry, timer |-> timer, message |-> message,
     user |-> 0,
     failN |-> failN, attempt |-> 0, sends |-> 0, fetches |-> 0, slept |-> 0,
     pending |-> 0, errors |-> << >>, initAtCall |-> isInitialized]

\* An outcome: what an operation returned or threw.  value is "result" for
\* a BroadcastResult, "throw" for an exception (error names it; escaped
\* tells whether it reached the caller), else the returned value.  The
\* fields after raw recall the call the outcome belongs to: for a scheduler
\* call its name and cron expression and whether the name was registered
\* (pre); for a broadcast the cron task that fired it (0: none), its
\* message, the number N of sends the provider fails, the provider sends
\* and fetches it issued, the time it slept between attempts, and whether
\* the engine was initialized when it was called.  timestamp is the
\* timestamp field of a BroadcastResult, status the object a getStatus
\* returned, errors the errors of the failed sends in order, provided
\* the message_id of the provider's result and user the sender of the chat
\* command behind the call (0: none).
NoStatus == [kind |-> "none"]

NoOutcome ==
    [op |-> "none", value |-> "undefined", error |-> "none", escaped |-> FALSE,
     messageId |-> 0, raw |-> NoError, name |-> "", pre |-> FALSE, cron |-> "",
     timer |-> 0, message |-> JsNull, failN |-> 0, sends |-> 0,
     fetches |-> 0, slept |-> 0, initAtCall |-> FALSE, timestamp |-> "none",
     status |-> NoStatus, errors |-> << >>, provided |-> 0, user |-> 0]

\* the try/catch of a cron callback: the error of the awaited broadcast is
\* logged and handed to handleScheduledTaskError, never rethrown
CallbackRethrows == FALSE

Settle_Swallows(c, success, messageId, error, raw) ==
    [NoOutcome EXCEPT
        !.op = c.entry, !.value = IF success THEN "result" ELSE "undefined",
        !.error = error, !.raw = raw, !.messageId = messageId,
        !.timestamp = IF success THEN "ISO" ELSE "none",
        !.timer = c.timer, !.message = c.message, !.failN = c.failN,
        !.sends = c.sends, !.fetches = c.fetches, !.slept = c.slept,
        !.errors = c.errors, !.initAtCall = c.initAtCall, !.user = c.user]
Settle(c, success, messageId, error, raw) ==
    [NoOutcome EXCEPT
        !.op = c.entry, !.value = IF success THEN "result" ELSE "throw",
        !.error = error, !.raw = raw, !.messageId = messageId,
        !.timestamp = IF success THEN "ISO" ELSE "none",
        !.escaped = (~success /\ (c.timer = 0 \/ CallbackRethrows)),
        !.timer = c.timer, !.message = c.message, !.failN = c.failN,
        !.sends = c.sends, !.fetches = c.fetches, !.slept = c.slept,
        !.errors = c.errors, !.initAtCall = c.initAtCall, !.user = c.user]

\* handleScheduledTaskError: logs the error; the cron tasks are not touched
HandleScheduledTaskError_Disarms(ts) == [t \in DOMAIN ts |-> [ts[t] EXCEPT !.armed = FALSE]]
HandleScheduledTaskError(ts) == ts

FreeSlots == {i \in 1..MaxCalls : calls[i].pc = "idle"}
FirstFree == CHOOSE i \in FreeSlots : \A j \in FreeSlots : i <= j
Active    == {i \in 1..MaxCalls : calls[i].pc # "idle"}

\* sendMessageWithRetry up to its await: one provider send is issued
IssueSend(c, attempt) ==
    [c EXCEPT !.pc = "send", !.attempt = attempt, !.sends = c.sends + 1,
              !.pending = c.pending + 1]

\* the awaited provider send resolves
SendSettled(c) == [c EXCEPT !.pending = c.pending - 1]

\* the awaited provider send rejects with error
SendFailed(c, error) ==
    [c EXCEPT !.pending = c.pending - 1, !.errors = Append(c.errors, error)]

\* the error sendMessageWithRetry throws when it gives up: the one its last
\* send was rejected with; every level of the recursion passes it on
PropagatedError_First(c) == c.errors[1]
PropagatedError(c) == c.errors[Len(c.errors)]

\* messageId of the BroadcastResult: the message_id of the provider's result
ResultMessageId_Lost(result) == 0
ResultMessageId(result) == result.message_id

\* the retry branch of sendMessageWithRetry up to its await: the call
\* sleeps retryDelay; the next attempt is made when the delay is over
RetryLater_NoDelay(c) == IssueSend(c, c.attempt + 1)
RetryLater_Backoff(c) ==
    [c EXCEPT !.pc = "delay", !.slept = c.slept + retryDelay * c.attempt]
RetryLater(c) == [c EXCEPT !.pc = "delay", !.slept = c.slept + retryDelay]

\* broadcastUpdate up to its first await.  Gives the call's next record and
\* the error raised before any await ("none": the call goes on).
BroadcastEntry_Serialized(c, message) ==
    IF ~isInitialized THEN [call |-> c, error |-> "NotInitialized"]
    ELSE IF RejectedMessage(message) THEN [call |-> c, error |-> "InvalidMessage"]
    ELSE IF \E j \in 1..MaxCalls : calls[j].pc \in {"send", "delay"}
    THEN [call |-> c, error |-> "Busy"]
    ELSE [call |-> IssueSend([c EXCEPT !.message = message], 1), error |-> "none"]
BroadcastEntry_NoInitCheck(c, message) ==
    IF RejectedMessage(message) THEN [call |-> c, error |-> "InvalidMessage"]
    ELSE [call |-> IssueSend([c EXCEPT !.message = message], 1), error |-> "none"]
BroadcastEntry(c, message) ==
    IF ~isInitialized THEN [call |-> c, error |-> "NotInitialized"]
    ELSE IF RejectedMessage(message) THEN [call |-> c, error |-> "InvalidMessage"]
    ELSE [call |-> IssueSend([c EXCEPT !.message = message], 1), error |-> "none"]

\* invocation i settles with outcome r: its caller resumes.  A cron callback
\* whose broadcast failed runs its catch block.
Finish(i, r) ==
    /\ calls' = [calls EXCEPT ![i] = Idle]
    /\ last' = r
    /\ timers' = IF r.timer # 0 /\ r.value = "throw"
                 THEN HandleScheduledTaskError(timers)
                 ELSE timers
    /\ UNCHANGED <<jobs, isRunning>>

\* place the outcome of the synchronous prefix of a call in slot i
Enter(i, entered) ==
    IF entered.error = "none"
    THEN /\ calls' = [calls EXCEPT ![i] = entered.call]
         /\ last' = NoOutcome
         /\ UNCHANGED schedVars
    ELSE Finish(i, Settle(entered.call, FALSE, 0, entered.error, NoError))

\* botInstance.broadcastUpdate(message), invoked directly
BroadcastUpdate(message, failN) ==
    /\ FreeSlots # {}
    /\ Enter(FirstFree, BroadcastEntry(NewCall("broadcastUpdate", 0, message, failN), message))
    /\ UNCHANGED <<config, engineVars>>

\* sendDailyMarketSummary up to its first await: getBitcoinPrice issues the
\* market-data fetch before anything else is looked at
DailyEntry(c) == [c EXCEPT !.pc = "fetch", !.fetches = c.fetches + 1]

\* botInstance.sendDailyMarketSummary(), invoked directly
SendDailyMarketSummary(failN) ==
    /\ FreeSlots # {}
    /\ calls' = [calls EXCEPT ![FirstFree] =
                    DailyEntry(NewCall("sendDailyMarketSummary", 0, JsNull, failN))]
    /\ last' = NoOutcome
    /\ UNCHANGED <<config, engineVars, schedVars>>

\* the market data getBitcoinPrice returns: the provider's, or the
\* fallback its catch block makes up when the fetch failed
LiveData     == "L"
FallbackData == "F"
MarketData   == {LiveData, FallbackData}

GetBitcoinPrice_Throws(fetched) == IF fetched THEN LiveData ELSE "throw"
GetBitcoinPrice(fetched) == IF fetched THEN LiveData ELSE FallbackData

\* generateDailyMessage: one of a fixed catalogue of non-empty texts, the
\* market data written into it
GenerateDailyMessage(marketData) == Str(DailyText.chars \o <<marketData>>)

\* the fetch settles; getBitcoinPrice returns live or fallback data and
\* sendDailyMarketSummary goes on into broadcastUpdate(summary).  Whatever
\* is thrown inside sendDailyMarketSummary is logged and rethrown.
FetchSettles(i, fetched) ==
    /\ calls[i].pc = "fetch"
    /\ LET marketData == GetBitcoinPrice(fetched)
       IN  IF marketData \in MarketData
           THEN Enter(i, BroadcastEntry(calls[i], GenerateDailyMessage(marketData)))
           ELSE Finish(i, Settle(calls[i], FALSE, 0, "FetchFailed", NoError))
    /\ UNCHANGED <<config, engineVars>>

\* the provider send of the current attempt succeeds
SendResolves(i, messageId) ==
    /\ calls[i].pc = "send"
    /\ calls[i].attempt > calls[i].failN
    /\ LET result == [message_id |-> messageId]
       IN  Finish(i, [Settle(SendSettled(calls[i]), TRUE, ResultMessageId(result),
                             "none", NoError)
                        EXCEPT !.provided = result.message_id])
    /\ UNCHANGED <<config, engineVars>>

\* the retry test of sendMessageWithRetry
MayRetry_OffByOne(attempt) == attempt <= retryCount
MayRetry(attempt) == attempt < retryCount

\* the provider send of the current attempt fails with error: the call
\* sleeps retryDelay and retries, or gives up and broadcastUpdate classifies
SendRejects(i, error) ==
    /\ calls[i].pc = "send"
    /\ calls[i].attempt <= calls[i].failN
    /\ IF MayRetry(calls[i].attempt)
       THEN /\ calls' = [calls EXCEPT ![i] = RetryLater(SendFailed(calls[i], error))]
            /\ last' = NoOutcome
            /\ UNCHANGED schedVars
       ELSE LET c == SendFailed(calls[i], error)
            IN  Finish(i, Settle(c, FALSE, 0, BroadcastError(PropagatedError(c)),
                                 PropagatedError(c)))
    /\ UNCHANGED <<config, engineVars>>

\* the attempt number the recursive call is given
NextAttempt_Reset(attempt) == 1
NextAttempt_Shared(attempt) ==
    1 + (CHOOSE m \in {calls[j].attempt : j \in Active} :
            \A j \in Active : calls[j].attempt <= m)
NextAttempt(attempt) == attempt + 1

\* the delay is over; the next attempt is issued
DelayElapses(i) ==
    /\ calls[i].pc = "delay"
    /\ calls' = [calls EXCEPT ![i] = IssueSend(calls[i], NextAttempt(calls[i].attempt))]
    /\ last' = NoOutcome
    /\ UNCHANGED <<config, engineVars, schedVars>>

----------------------------------------------------------------------------
(* Chat commands (setupCommandHandlers).  The text of a chat message is a  *)
(* sequence of tokens: the two command words, a space, any other word.     *)

Digits == <<"0", "1", "2", "3", "4", "5", "6", "7", "8", "9">>

\* userId.toString() of a non-negative integer
RECURSIVE NumberToString(_)
NumberToString(n) ==
    IF n < 10 THEN <<Digits[n + 1]>>
    ELSE NumberToString(n \div 10) \o <<Digits[(n % 10) + 1]>>

\* isAuthorized(userId)
IsAuthorized_Prefix(userId) ==
    \/ Falsy(config.authorizedUserId)
    \/ /\ Len(NumberToString(userId)) >= Len(config.authorizedUserId.chars)
       /\ SubSeq(NumberToString(userId), 1, Len(config.authorizedUserId.chars))
            = config.authorizedUserId.chars
IsAuthorized(userId) ==
    IF Falsy(config.authorizedUserId) THEN TRUE
    ELSE NumberToString(userId) = config.authorizedUserId.chars

\* /\/broadcast_daily/ matches text
MatchesBroadcastDaily(text) == \E k \in 1..Len(text) : text[k] = "/broadcast_daily"

\* the positions where /\/broadcast (.+)/ can match text
BroadcastMatches(text) ==
    {k \in 1..Len(text) : text[k] = "/broadcast" /\ k + 2 <= Len(text) /\ text[k + 1] = " "}

\* match[1] of the leftmost match: the rest of the text
CustomMessage(text) ==
    LET k == CHOOSE m \in BroadcastMatches(text) : \A j \in BroadcastMatches(text) : m <= j
    IN  Str(SubSeq(text, k + 2, Len(text)))

\* a handler found the sender not authorized: it answers in the sender's
\* chat and returns
CommandRefused(command, userId, text) ==
    [NoOutcome EXCEPT !.op = command, !.user = userId, !.error = "NotAuthorized",
                      !.message = Str(text)]

\* an authorized command up to its first await: the handler answers in the
\* sender's chat that it is working
CommandCall(entry, userId, message, failN) ==
    [NewCall(entry, 0, message, failN) EXCEPT !.pc = "reply", !.user = userId]

\* the handler of /broadcast_daily receives a message of user userId
OnBroadcastDaily(userId, text, failN) ==
    /\ commandHandlers
    /\ MatchesBroadcastDaily(text)
    /\ FreeSlots # {}
    /\ IF ~IsAuthorized(userId)
       THEN /\ last' = CommandRefused("/broadcast_daily", userId, text)
            /\ UNCHANGED calls
       ELSE /\ calls' = [calls EXCEPT ![FirstFree] =
                    CommandCall("sendDailyMarketSummary", userId, JsNull, failN)]
            /\ last' = NoOutcome
    /\ UNCHANGED <<config, engineVars, schedVars>>

\* the handler of /broadcast <message> receives a message of user userId
OnBroadcast(userId, text, failN) ==
    /\ commandHandlers
    /\ BroadcastMatches(text) # {}
    /\ FreeSlots # {}
    /\ IF ~IsAuthorized(userId)
       THEN /\ last' = CommandRefused("/broadcast", userId, text)
            /\ UNCHANGED calls
       ELSE /\ calls' = [calls EXCEPT ![FirstFree] =
                    CommandCall("broadcastUpdate", userId, CustomMessage(text), failN)]
            /\ last' = NoOutcome
    /\ UNCHANGED <<config, engineVars, schedVars>>

\* the answer to the sender settles: delivered, the handler goes on into
\* sendDailyMarketSummary() or broadcastUpdate(customMessage); rejected, its
\* catch block reports the failure to the sender
ReplySettles(i, delivered) ==
    /\ calls[i].pc = "reply"
    /\ LET c == [calls[i] EXCEPT !.initAtCall = isInitialized]
       IN  IF ~delivered
           THEN Finish(i, Settle(c, FALSE, 0, "ReplyFailed", NoError))
           ELSE IF c.entry = "sendDailyMarketSummary"
           THEN /\ calls' = [calls EXCEPT ![i] = DailyEntry(c)]
                /\ last' = NoOutcome
                /\ UNCHANGED schedVars
           ELSE Enter(i, BroadcastEntry(c, c.message))
    /\ UNCHANGED <<config, engineVars>>

----------------------------------------------------------------------------
(* initialize().                                                           *)

\* initialize() throws error to its caller
InitThrows(error) ==
    [NoOutcome EXCEPT !.op = "initialize", !.value = "throw", !.error = error,
                      !.escaped = TRUE]

\* initialize() returns true; error is what verifyChannelAccess threw
\* ("none": it returned) and raw the provider error behind it
InitReturns(error, raw) ==
    [NoOutcome EXCEPT !.op = "initialize", !.value = "true", !.error = error,
                      !.raw = raw]

FreeInits == {i \in 1..MaxInits : inits[i] = "idle"}

\* isInitialized after initialize() threw: the assignment that follows
\* verifyChannelAccess was not reached
AfterInitThrow_Mutant == TRUE
AfterInitThrow_Reset == FALSE
AfterInitThrow == isInitialized

\* initialize up to its first await: the two configuration checks, then
\* the bot object is built, polling and with its command handlers when
\* config.enableCommands is set, and getMe is issued
Initialize ==
    /\ FreeInits # {}
    /\ LET i == CHOOSE k \in FreeInits : \A j \in FreeInits : k <= j
       IN  IF ~config.botToken
           THEN /\ last' = InitThrows("BOT_TOKEN is required")
                /\ isInitialized' = AfterInitThrow
                /\ initFailed' = ~isInitialized
                /\ UNCHANGED <<inits, commandHandlers>>
           ELSE IF ~config.channelId
           THEN /\ last' = InitThrows("CHANNEL_ID is required")
                /\ isInitialized' = AfterInitThrow
                /\ initFailed' = ~isInitialized
                /\ UNCHANGED <<inits, commandHandlers>>
           ELSE /\ inits' = [inits EXCEPT ![i] = "getMe"]
                /\ commandHandlers' = (commandHandlers \/ config.enableCommands)
                /\ last' = NoOutcome
                /\ UNCHANGED <<isInitialized, initFailed>>
    /\ UNCHANGED <<config, retryCount, retryDelay, calls, schedVars>>

\* getMe resolves: verifyChannelAccess is called and issues getChat
GetMeResolves(i) ==
    /\ inits[i] = "getMe"
    /\ inits' = [inits EXCEPT ![i] = "getChat"]
    /\ last' = NoOutcome
    /\ UNCHANGED <<config, isInitialized, initFailed, commandHandlers, retryCount, retryDelay,
                   calls, schedVars>>

\* getMe rejects: initialize logs and rethrows
GetMeRejects(i) ==
    /\ inits[i] = "getMe"
    /\ inits' = [inits EXCEPT ![i] = "idle"]
    /\ last' = InitThrows("getMe failed")
    /\ isInitialized' = AfterInitThrow
    /\ initFailed' = ~isInitialized
    /\ UNCHANGED <<config, commandHandlers, retryCount, retryDelay, calls, schedVars>>

\* whether initialize goes on after verifyChannelAccess threw
VerifyFailureIsFatal_Mutant == TRUE
VerifyFailureIsFatal == FALSE

\* getChat resolves: verifyChannelAccess returns true, initialize completes
GetChatResolves(i) ==
    /\ inits[i] = "getChat"
    /\ inits' = [inits EXCEPT ![i] = "idle"]
    /\ isInitialized' = TRUE
    /\ last' = InitReturns("none", NoError)
    /\ initFailed' = FALSE
    /\ UNCHANGED <<config, commandHandlers, retryCount, retryDelay, calls, schedVars>>

\* getChat rejects: verifyChannelAccess throws, initialize warns and goes on
GetChatRejects(i, error) ==
    /\ inits[i] = "getChat"
    /\ inits' = [inits EXCEPT ![i] = "idle"]
    /\ IF VerifyFailureIsFatal
       THEN /\ last' = InitThrows(VerifyError(error))
            /\ initFailed' = ~isInitialized
            /\ UNCHANGED isInitialized
       ELSE /\ isInitialized' = TRUE
            /\ last' = InitReturns(VerifyError(error), error)
            /\ initFailed' = FALSE
    /\ UNCHANGED <<config, commandHandlers, retryCount, retryDelay, calls, schedVars>>

\* the object getStatus() of the engine returns (its botToken field is a
\* masked copy of the token, its timestamp the current time)
BotStatus_AlwaysReady ==
    [kind |-> "bot", initialized |-> TRUE, botToken |-> config.botToken,
     channelId |-> config.channelId]
BotStatus ==
    [kind |-> "bot", initialized |-> isInitialized, botToken |-> config.botToken,
     channelId |-> config.channelId]

\* botInstance.getStatus()
GetStatus ==
    /\ last' = [NoOutcome EXCEPT !.op = "getStatus", !.value = "status",
                                 !.status = BotStatus]
    /\ UNCHANGED <<config, engineVars, calls, schedVars>>

----------------------------------------------------------------------------
(* The scheduler.                                                          *)

Names == {"dailyUpdate", "x"}

DailyCron  == "0 9 * * *"
MinuteCron == "* * * * *"
NotACron   == "not-a-cron"

\* cron.validate of node-cron
CronValidate(cronExpression) == cronExpression \in {DailyCron, MinuteCron}

NoTimezone == "undefined"

\* cron.schedule(expr, callback, {scheduled: false, timezone}) followed by
\* job.start(): an armed task.  kind tells which callback the task runs.
CronTask_NotStarted(name, kind, cronExpression, message, timezone) ==
    [name |-> name, kind |-> kind, cron |-> cronExpression,
     message |-> message, timezone |-> timezone, armed |-> FALSE]
CronTask(name, kind, cronExpression, message, timezone) ==
    [name |-> name, kind |-> kind, cron |-> cronExpression,
     message |-> message, timezone |-> timezone, armed |-> TRUE]

\* job.stop()
StopTask(ts, t) == [ts EXCEPT ![t].armed = FALSE]

\* new Map()
EmptyJobs == [n \in {} |-> 0]

\* this.jobs.set(name, job)
JobsSet(name, t) ==
    [n \in (DOMAIN jobs) \cup {name} |-> IF n = name THEN t ELSE jobs[n]]

\* this.jobs.delete(name)
JobsDelete_Clear(name) == EmptyJobs
JobsDelete(name) == [n \in (DOMAIN jobs) \ {name} |-> jobs[n]]

\* a scheduler operation returns value, or throws (value "throw"); pre
\* recalls whether name was registered when it was called and cron the
\* expression it was given
Returned(op, name, cronExpression, value) ==
    [NoOutcome EXCEPT !.op = op, !.name = name, !.pre = (name \in DOMAIN jobs),
                      !.cron = cronExpression,
                      !.value = value, !.escaped = (value = "throw"),
                      !.error = IF value = "throw" THEN "Invalid cron expression"
                                ELSE "none"]

\* isRunning once scheduleDailyUpdate() has thrown: start() rethrows from
\* its catch block, the assignment isRunning = true was skipped
IsRunningAfterThrow_Mutant == TRUE
IsRunningAfterThrow == isRunning

\* start(), with scheduleDailyUpdate() inlined
Start ==
    /\ IF ~config.enableScheduler
       THEN /\ last' = Returned("start", "dailyUpdate", config.dailyUpdateTime, "undefined")
            /\ UNCHANGED <<jobs, timers, isRunning>>
       ELSE IF ~CronValidate(config.dailyUpdateTime)
       THEN /\ last' = Returned("start", "dailyUpdate", config.dailyUpdateTime, "throw")
            /\ isRunning' = IsRunningAfterThrow
            /\ UNCHANGED <<jobs, timers>>
       ELSE /\ Len(timers) < MaxTimers
            /\ timers' = Append(timers, CronTask("dailyUpdate", "daily",
                                    config.dailyUpdateTime, JsNull, config.timezone))
            /\ jobs' = JobsSet("dailyUpdate", Len(timers) + 1)
            /\ isRunning' = TRUE
            /\ last' = Returned("start", "dailyUpdate", config.dailyUpdateTime, "undefined")
    /\ UNCHANGED <<config, engineVars, calls>>

\* the replace step of scheduleCustomMessage: the task registered under
\* name, if any, is stopped
StopExisting_Forgets(name) == timers
StopExisting(name) ==
    IF name \in DOMAIN jobs THEN StopTask(timers, jobs[name]) ELSE timers

\* whether scheduleCustomMessage validates before it touches the registry
ValidatesFirst_Mutant == FALSE
ValidatesFirst == TRUE

\* scheduleCustomMessage(name, cronExpression, message, {timezone})
ScheduleCustomMessage(name, cronExpression, message, timezone) ==
    /\ IF ~CronValidate(cronExpression)
       THEN /\ last' = Returned("scheduleCustomMessage", name, cronExpression, "throw")
            /\ timers' = IF ValidatesFirst THEN timers ELSE StopExisting(name)
            /\ jobs' = IF ValidatesFirst THEN jobs ELSE JobsDelete(name)
            /\ UNCHANGED isRunning
       ELSE /\ Len(timers) < MaxTimers
            /\ timers' = Append(StopExisting(name),
                            CronTask(name, "custom", cronExpression, message,
                                     IF timezone # NoTimezone THEN timezone
                                     ELSE config.timezone))
            /\ jobs' = JobsSet(name, Len(timers) + 1)
            /\ last' = Returned("scheduleCustomMessage", name, cronExpression, "true")
            /\ UNCHANGED isRunning
    /\ UNCHANGED <<config, engineVars, calls>>

\* the value stopJob returns for a name that is registered
StopJobFound_Mutant == "false"
StopJobFound == "true"

\* the broadcast invocations once cron task t is stopped: job.stop()
\* cancels the timer of the task, a callback that is running is not touched
InFlightAfterStop_Cancelled(t) ==
    [i \in 1..MaxCalls |->
        IF calls[i].pc # "idle" /\ calls[i].timer = t THEN Idle ELSE calls[i]]
InFlightAfterStop(t) == calls

\* stopJob(name)
StopJob(name) ==
    /\ IF name \in DOMAIN jobs
       THEN /\ timers' = StopTask(timers, jobs[name])
            /\ jobs' = JobsDelete(name)
            /\ calls' = InFlightAfterStop(jobs[name])
            /\ last' = Returned("stopJob", name, "", StopJobFound)
       ELSE /\ last' = Returned("stopJob", name, "", "false")
            /\ UNCHANGED <<jobs, timers, calls>>
    /\ UNCHANGED <<config, engineVars, isRunning>>

\* this.jobs.forEach(job => job.stop())
StopAll_SkipsDaily(ts) ==
    [t \in DOMAIN ts |->
        IF \E n \in DOMAIN jobs : jobs[n] = t /\ n # "dailyUpdate"
        THEN [ts[t] EXCEPT !.armed = FALSE]
        ELSE ts[t]]
StopAll(ts) ==
    [t \in DOMAIN ts |->
        IF \E n \in DOMAIN jobs : jobs[n] = t
        THEN [ts[t] EXCEPT !.armed = FALSE]
        ELSE ts[t]]

\* stop()
Stop ==
    /\ timers' = StopAll(timers)
    /\ jobs' = EmptyJobs
    /\ isRunning' = FALSE
    /\ last' = Returned("stop", "", "", "undefined")
    /\ UNCHANGED <<config, engineVars, calls>>

\* node-cron runs the callback of a task only between its start() and
\* its stop()
MayFire_Stopped(t) == TRUE
MayFire_NoOverlap(t) ==
    timers[t].armed /\ \A i \in 1..MaxCalls : calls[i].pc # "idle" => calls[i].timer # t
MayFire(t) == timers[t].armed

\* the entry getStatus() of the scheduler makes for a registered task
JobStatus(t) == [task |-> t]

\* the object getStatus() of the scheduler returns
SchedulerStatus_CountsTasks ==
    [kind |-> "scheduler", isRunning |-> isRunning, jobCount |-> Len(timers),
     jobs |-> [n \in DOMAIN jobs |-> JobStatus(jobs[n])],
     timezone |-> config.timezone]
SchedulerStatus ==
    [kind |-> "scheduler", isRunning |-> isRunning,
     jobCount |-> Cardinality(DOMAIN jobs),
     jobs |-> [n \in DOMAIN jobs |-> JobStatus(jobs[n])],
     timezone |-> config.timezone]

\* scheduler.getStatus()
SchedulerGetStatus ==
    /\ last' = [NoOutcome EXCEPT !.op = "scheduler.getStatus", !.value = "status",
                                 !.status = SchedulerStatus]
    /\ UNCHANGED <<config, engineVars, calls, schedVars>>

\* an armed cron task reaches an occurrence: its callback runs up to its
\* first await
Fire(t, failN) ==
    /\ t \in DOMAIN timers
    /\ MayFire(t)
    /\ FreeSlots # {}
    /\ IF timers[t].kind = "daily"
       THEN /\ calls' = [calls EXCEPT ![FirstFree] =
                    DailyEntry(NewCall("sendDailyMarketSummary", t, JsNull, failN))]
            /\ last' = NoOutcome
            /\ UNCHANGED schedVars
       ELSE Enter(FirstFree,
                  BroadcastEntry(NewCall("broadcastUpdate", t, timers[t].message, failN),
                                 timers[t].message))
    /\ UNCHANGED <<config, engineVars>>

----------------------------------------------------------------------------
(* Specifications.                                                         *)

\* config.retryAttempts and config.retryDelay when the environment sets
\* neither RETRY_ATTEMPTS nor RETRY_DELAY, and when it sets both
ConfigRetryDefaults == [retryAttempts |-> 3, retryDelay |-> 2000]
ConfigRetryFromEnv  == [retryAttempts |-> 2, retryDelay |-> 1000]

Configs ==
    [botToken : BOOLEAN, channelId : BOOLEAN, enableScheduler : BOOLEAN,
     dailyUpdateTime : {DailyCron, NotACron}, timezone : {"UTC"},
     retryAttempts : {ConfigRetryDefaults.retryAttempts},
     retryDelay : {ConfigRetryDefaults.retryDelay},
     enableCommands : {FALSE}, authorizedUserId : {JsUndefined}]

\* the configurations with RETRY_ATTEMPTS and RETRY_DELAY set as well
EngineConfigs ==
    Configs \cup {[c EXCEPT !.retryAttempts = ConfigRetryFromEnv.retryAttempts,
                            !.retryDelay = ConfigRetryFromEnv.retryDelay] : c \in Configs}

\* the state the two constructors leave
Constructed ==
    /\ isInitialized = FALSE
    /\ retryCount = DefaultRetryCount
    /\ retryDelay = DefaultRetryDelay
    /\ inits = [i \in 1..MaxInits |-> "idle"]
    /\ initFailed = FALSE
    /\ commandHandlers = FALSE
    /\ calls = [i \in 1..MaxCalls |-> Idle]
    /\ jobs = EmptyJobs
    /\ timers = << >>
    /\ isRunning = FALSE
    /\ last = NoOutcome

Init == config \in Configs /\ Constructed

EngineInit == config \in EngineConfigs /\ Constructed

DirectMessages == {Hello, Empty, Blank, JsNull, JsNumber}
JobMessages    == {MsgA, MsgB}
MessageIds     == {101, 102}
FailPlans      == 0..MaxFail

\* the errors a send that is retried is rejected with; the last send of a
\* call is rejected with any of ProviderErrors
EarlyErrors == {ApiError(403), NetworkError}

EngineNext ==
    \/ Initialize
    \/ \E i \in 1..MaxInits : GetMeResolves(i)
    \/ \E i \in 1..MaxInits : GetMeRejects(i)
    \/ \E i \in 1..MaxInits : GetChatResolves(i)
    \/ \E i \in 1..MaxInits, e \in ProviderErrors : GetChatRejects(i, e)
    \/ \E m \in DirectMessages, n \in FailPlans : Active = {} /\ BroadcastUpdate(m, n)
    \/ \E n \in FailPlans : Active = {} /\ SendDailyMarketSummary(n)
    \/ \E i \in 1..MaxCalls, f \in BOOLEAN : FetchSettles(i, f)
    \/ \E i \in 1..MaxCalls, id \in MessageIds : SendResolves(i, id)
    \/ \E i \in 1..MaxCalls, e \in ProviderErrors :
          /\ (calls[i].pc = "send" /\ MayRetry(calls[i].attempt)) => e \in EarlyErrors
          /\ SendRejects(i, e)
    \/ \E i \in 1..MaxCalls : DelayElapses(i)
    \/ GetStatus

SpecEngine == EngineInit /\ [][EngineNext]_vars

\* The scheduler on its own: the engine is never set up, so every firing
\* ends in broadcastUpdate's not-initialized error.  One firing at a time.
FiringPlans  == {0, MaxFail}
FiringErrors == {ApiError(429)}
TokyoTime    == "Asia/Tokyo"

SchedInit == Init /\ config.botToken /\ config.channelId

SchedNext ==
    \/ \E i \in 1..MaxCalls, f \in BOOLEAN : FetchSettles(i, f)
    \/ Start
    \/ \E name \in Names, cronExpression \in {MinuteCron, NotACron}, m \in JobMessages :
          ScheduleCustomMessage(name, cronExpression, m, NoTimezone)
    \/ ScheduleCustomMessage("x", MinuteCron, MsgA, TokyoTime)
    \/ \E name \in Names : StopJob(name)
    \/ Stop
    \/ \E t \in 1..MaxTimers : Active = {} /\ Fire(t, 0)
    \/ SchedulerGetStatus

SpecSched == SchedInit /\ [][SchedNext]_vars

\* Direct broadcasts on an engine that is initialized once, up to two at a
\* time, under the assumption that the provider settles every send it was
\* given and that every delay timer fires.
LiveInit == Init /\ config.botToken /\ config.channelId

LiveNext ==
    \/ ~isInitialized /\ Initialize
    \/ \E i \in 1..MaxInits : GetMeResolves(i)
    \/ \E i \in 1..MaxInits : GetChatResolves(i)
    \/ \E n \in FailPlans : Cardinality(Active) <= 1 /\ BroadcastUpdate(Hello, n)
    \/ \E i \in 1..MaxCalls : SendResolves(i, 101)
    \/ \E i \in 1..MaxCalls, e \in FiringErrors : SendRejects(i, e)
    \/ \E i \in 1..MaxCalls : DelayElapses(i)

SendSettles(i) == SendResolves(i, 101) \/ \E e \in FiringErrors : SendRejects(i, e)

SpecLive ==
    /\ LiveInit
    /\ [][LiveNext]_vars
    /\ \A i \in 1..MaxCalls : WF_vars(SendSettles(i)) /\ WF_vars(DelayElapses(i))

\* Chat commands: the engine with command handling switched on and an
\* authorized user id configured or not, commands of several senders, one
\* handler at a time.
UserIds == {7, 17, 71}

CommandTexts ==
    {<<"/broadcast_daily">>,
     <<"/broadcast", " ", "w">>,
     <<"/broadcast">>,
     <<"w", " ", "/broadcast", " ", "/broadcast_daily">>}

CommandConfigs ==
    {[c EXCEPT !.enableCommands = TRUE, !.authorizedUserId = a] :
        c \in {k \in Configs : k.botToken /\ k.channelId /\ ~k.enableScheduler
                                /\ k.dailyUpdateTime = DailyCron},
        a \in {JsUndefined, Str(<<"7">>), Str(<<"1", "7">>)}}

CommandInit == config \in CommandConfigs /\ Constructed

CommandNext ==
    \/ ~isInitialized /\ Initialize
    \/ \E i \in 1..MaxInits : GetMeResolves(i)
    \/ \E i \in 1..MaxInits : GetMeRejects(i)
    \/ \E i \in 1..MaxInits : GetChatResolves(i)
    \/ \E u \in UserIds, text \in CommandTexts, n \in FiringPlans :
          Active = {} /\ OnBroadcastDaily(u, text, n)
    \/ \E u \in UserIds, text \in CommandTexts, n \in FiringPlans :
          Active = {} /\ OnBroadcast(u, text, n)
    \/ \E i \in 1..MaxCalls, delivered \in BOOLEAN : ReplySettles(i, delivered)
    \/ \E i \in 1..MaxCalls : FetchSettles(i, FALSE)
    \/ \E i \in 1..MaxCalls : SendResolves(i, 101)
    \/ \E i \in 1..MaxCalls, e \in FiringErrors : SendRejects(i, e)
    \/ \E i \in 1..MaxCalls : DelayElapses(i)

SpecCommands == CommandInit /\ [][CommandNext]_vars

\* The engine and the scheduler together: initialize() interleaved with
\* direct broadcasts, scheduler calls and job firings, the provider's
\* behaviour drawn from a few representative cases (the market-data fetch
\* fails; for a direct call the provider fails every send).  One broadcast
\* invocation at a time.
Next ==
    \/ Initialize
    \/ \E i \in 1..MaxInits : GetMeResolves(i)
    \/ \E i \in 1..MaxInits : GetMeRejects(i)
    \/ \E i \in 1..MaxInits : GetChatResolves(i)
    \/ \E i \in 1..MaxInits : GetChatRejects(i, ApiError(403))
    \/ Active = {} /\ BroadcastUpdate(Hello, MaxFail)
    \/ Active = {} /\ SendDailyMarketSummary(MaxFail)
    \/ \E i \in 1..MaxCalls : FetchSettles(i, FALSE)
    \/ \E i \in 1..MaxCalls : SendResolves(i, 101)
    \/ \E i \in 1..MaxCalls, e \in FiringErrors : SendRejects(i, e)
    \/ \E i \in 1..MaxCalls : DelayElapses(i)
    \/ Start
    \/ ScheduleCustomMessage("x", MinuteCron, MsgA, NoTimezone)
    \/ StopJob("x")
    \/ Stop
    \/ \E t \in 1..MaxTimers, n \in FiringPlans : Active = {} /\ Fire(t, n)

Spec == Init /\ [][Next]_vars

\* The service as the server process runs it: start() validates the
\* configuration and awaits initialize() before it starts the scheduler and
\* serves a route, so every scheduler call, broadcast and firing finds the
\* engine initialized; a failed initialize() ends the start.  One broadcast
\* invocation at a time.
Serving_NoWait == TRUE
Serving == isInitialized /\ FreeInits = 1..MaxInits

ServerInit == Init /\ config.botToken /\ config.channelId

ServerNext ==
    \/ ~isInitialized /\ ~initFailed /\ FreeInits = 1..MaxInits /\ Initialize
    \/ \E i \in 1..MaxInits : GetMeResolves(i)
    \/ \E i \in 1..MaxInits : GetMeRejects(i)
    \/ \E i \in 1..MaxInits : GetChatResolves(i)
    \/ \E i \in 1..MaxInits : GetChatRejects(i, ApiError(403))
    \/ \E m \in DirectMessages, n \in FiringPlans :
          Serving /\ Active = {} /\ BroadcastUpdate(m, n)
    \/ \E n \in FiringPlans : Serving /\ Active = {} /\ SendDailyMarketSummary(n)
    \/ \E i \in 1..MaxCalls, f \in BOOLEAN : FetchSettles(i, f)
    \/ \E i \in 1..MaxCalls : SendResolves(i, 101)
    \/ \E i \in 1..MaxCalls, e \in FiringErrors : SendRejects(i, e)
    \/ \E i \in 1..MaxCalls : DelayElapses(i)
    \/ Serving /\ Start
    \/ \E cronExpression \in {MinuteCron, NotACron} :
          Serving /\ ScheduleCustomMessage("x", cronExpression, MsgA, NoTimezone)
    \/ Serving /\ StopJob("x")
    \/ Serving /\ Stop
    \/ \E t \in 1..MaxTimers, n \in FiringPlans : Active = {} /\ Fire(t, n)

SpecServer == ServerInit /\ [][ServerNext]_vars

\* Overlapping invocations on the running service: the server starts the
\* scheduler once, one custom job is registered, and then their firings
\* and direct calls begin whenever a slot is free, whatever is in progress.
ConcurrentInit ==
    ServerInit /\ config.enableScheduler /\ config.dailyUpdateTime = DailyCron

ConcurrentNext ==
    \/ ~isInitialized /\ ~initFailed /\ FreeInits = 1..MaxInits /\ Initialize
    \/ \E i \in 1..MaxInits : GetMeResolves(i)
    \/ \E i \in 1..MaxInits : GetChatResolves(i)
    \/ Serving /\ ~isRunning /\ Start
    \/ Serving /\ Active = {} /\ "x" \notin DOMAIN jobs
          /\ ScheduleCustomMessage("x", MinuteCron, MsgA, NoTimezone)
    \/ Serving /\ BroadcastUpdate(Hello, MaxFail)
    \/ \E t \in 1..MaxTimers, n \in FiringPlans : Fire(t, n)
    \/ \E i \in 1..MaxCalls : FetchSettles(i, FALSE)
    \/ \E i \in 1..MaxCalls : SendResolves(i, 101)
    \/ \E i \in 1..MaxCalls, e \in FiringErrors : SendRejects(i, e)
    \/ \E i \in 1..MaxCalls : DelayElapses(i)

SpecConcurrent == ConcurrentInit /\ [][ConcurrentNext]_vars

----------------------------------------------------------------------------
(* Properties.                                                             *)

Min(a, b) == IF a <= b THEN a ELSE b

\* String.prototype.trim on a sequence of characters
RECURSIVE TrimLeft(_)
TrimLeft(s) == IF s # <<>> /\ Head(s) = " " THEN TrimLeft(Tail(s)) ELSE s
RECURSIVE TrimRight(_)
TrimRight(s) ==
    IF s # <<>> /\ s[Len(s)] = " " THEN TrimRight(SubSeq(s, 1, Len(s) - 1)) ELSE s
JsTrim(s) == TrimRight(TrimLeft(s))

\* a message the contract accepts: a string that is not empty once trimmed
NonEmptyText(m) == m.type = "string" /\ JsTrim(m.chars) # <<>>

IsBroadcastOutcome == last.op \in {"broadcastUpdate", "sendDailyMarketSummary"}

\* C1: a broadcastUpdate call on an initialized engine whose provider fails
\* the first N sends makes exactly min(N+1, retryCount) provider sends, and
\* when N+1 > retryCount it raises an error after exactly retryCount sends;
\* no invocation in progress has ever made more than that.
C1_RetryCount ==
    /\ \A i \in Active :
          calls[i].sends <= Min(calls[i].failN + 1, retryCount)
    /\ (/\ last.op = "broadcastUpdate"
        /\ last.initAtCall
        /\ NonEmptyText(last.message))
       => /\ last.sends = Min(last.failN + 1, retryCount)
          /\ (last.failN + 1 > retryCount
                => last.value = "throw" /\ last.sends = retryCount)

C1_Witness ==
    /\ last.op = "broadcastUpdate"
    /\ last.initAtCall
    /\ NonEmptyText(last.message)
    /\ last.failN + 1 > retryCount
    /\ last.value = "throw"
    /\ last.sends = retryCount

\* the classification the contract gives each provider error code
ClaimedClass(code) ==
    CASE code = 400 -> "BadRequest"
      [] code = 403 -> "Forbidden"
      [] code = 429 -> "RateLimited"
      [] code = 502 -> "TemporarilyUnavailable"
      [] code = 503 -> "TemporarilyUnavailable"
      [] code = 504 -> "TemporarilyUnavailable"
      [] OTHER -> "TelegramApiError"

Structured(error) == error.body \in {"object", "json"}

\* C2: when every attempt of a broadcastUpdate call fails, the error raised
\* carries the classification of the provider's error code (400 Bad
\* Request, 403 Forbidden, 429 Rate Limited, 502/503/504 temporarily
\* unavailable, any other code the generic provider error), and only a
\* response that is not a structured error gives "failed to broadcast".
C2_Classified ==
    (/\ IsBroadcastOutcome
     /\ last.value = "throw"
     /\ last.sends = retryCount)
    => /\ Structured(last.raw) => last.error = ClaimedClass(last.raw.code)
       /\ last.error = "FailedToBroadcast" => ~Structured(last.raw)

\* C3: on an initialized engine, broadcastUpdate with an empty string, a
\* whitespace-only string, null or a non-string value raises the validation
\* error and makes no provider send.
C3_InvalidMessageRejected ==
    /\ \A i \in Active :
          calls[i].entry = "broadcastUpdate" /\ calls[i].timer = 0
            => NonEmptyText(calls[i].message)
    /\ (/\ last.op = "broadcastUpdate"
        /\ last.timer = 0
        /\ last.initAtCall
        /\ ~NonEmptyText(last.message))
       => /\ last.value = "throw"
          /\ last.error = "InvalidMessage"
          /\ last.sends = 0

\* a provider send is issued in this step
IssuesSend ==
    \E i \in 1..MaxCalls : calls'[i].pc = "send" /\ calls[i].pc # "send"

\* C4: no provider send is issued while isInitialized is false, whatever
\* the interleaving of initialize, direct broadcasts and job firings; a
\* broadcast made then ends with the not-initialized error and no send.
C4_NoSendBeforeInitialized ==
    [][~isInitialized =>
          /\ ~IssuesSend
          /\ last'.op \in {"broadcastUpdate", "sendDailyMarketSummary"}
               => /\ last'.value = "throw"
                  /\ last'.error = "NotInitialized"
                  /\ last'.sends = 0]_vars

C4_Witness ==
    /\ ~isInitialized
    /\ \E i \in 1..MaxInits : inits[i] = "getChat"
    /\ last.op = "broadcastUpdate"
    /\ last.timer # 0
    /\ last.error = "NotInitialized"
    /\ last.sends = 0

\* C5: a broadcast method called before initialize() has succeeded raises
\* the not-initialized error and makes no network call of any kind, the
\* market-data fetch included.
C5_NoNetworkBeforeInitialized ==
    /\ \A i \in Active : calls[i].initAtCall
    /\ (IsBroadcastOutcome /\ ~last.initAtCall)
       => /\ last.value = "throw"
          /\ last.error = "NotInitialized"
          /\ last.sends = 0
          /\ last.fetches = 0

ArmedNamed(ts, name) == {t \in DOMAIN ts : ts[t].name = name /\ ts[t].armed}

\* C6: a scheduleCustomMessage call for a name that scheduleCustomMessage
\* registered before leaves one registered job under that name and one
\* armed timer for it, the new one: no timer of an earlier registration
\* of that name is still armed to fire its message.
C6_ReplaceLeavesOneTimer ==
    [][(/\ last'.op = "scheduleCustomMessage"
        /\ last'.value = "true"
        /\ \E t \in DOMAIN timers :
              timers[t].name = last'.name /\ timers[t].kind = "custom")
       => /\ last'.name \in DOMAIN jobs'
          /\ jobs'[last'.name] = Len(timers')
          /\ ArmedNamed(timers', last'.name) = {Len(timers')}]_vars

\* C7: scheduleCustomMessage with an invalid cron expression throws and
\* leaves the registry, every cron task and isRunning as they were, also
\* when a job of that name is registered.
C7_InvalidCronNoEffect ==
    [][(last'.op = "scheduleCustomMessage" /\ ~CronValidate(last'.cron))
       => /\ last'.value = "throw"
          /\ jobs' = jobs
          /\ timers' = timers
          /\ isRunning' = isRunning]_vars

C7_Witness ==
    /\ last.op = "scheduleCustomMessage"
    /\ last.value = "throw"
    /\ last.pre
    /\ last.name \in DOMAIN jobs
    /\ timers[jobs[last.name]].armed

\* C8: when the broadcast of a fired job fails, the error does not leave
\* the timer callback, the registry and every task's armed flag stay as
\* they were, and the job can fire again if it was armed.
C8_FailedFiringKeepsJob ==
    [][(last'.timer # 0 /\ last'.value = "throw")
       => /\ ~last'.escaped
          /\ jobs' = jobs
          /\ timers' = timers
          /\ timers[last'.timer].armed => FreeSlots' # {}]_vars

C8_Witness ==
    /\ last.timer # 0
    /\ last.value = "throw"
    /\ last.sends = retryCount
    /\ timers[last.timer].kind = "daily"
    /\ timers[last.timer].armed
    /\ \E n \in DOMAIN jobs : jobs[n] = last.timer

\* C9: stopJob on a name that is not registered returns false and changes
\* nothing; on a registered name it disarms the job, removes it and returns
\* true, so that a stopJob of that name right after returns false.
C9_StopJob ==
    [][last'.op = "stopJob"
       => /\ last'.value # "throw"
          /\ last'.name \notin DOMAIN jobs'
          /\ IF last'.name \in DOMAIN jobs
             THEN /\ last'.value = "true"
                  /\ ~timers'[jobs[last'.name]].armed
                  /\ DOMAIN jobs' = DOMAIN jobs \ {last'.name}
             ELSE /\ last'.value = "false"
                  /\ jobs' = jobs
                  /\ timers' = timers]_vars

C9_Witness ==
    /\ last.op = "stopJob"
    /\ last.value = "true"
    /\ last.pre
    /\ last.name \notin DOMAIN jobs

\* C10: initialize() returns true with isInitialized set whenever the token
\* and the channel id are present and getMe succeeded, whether or not
\* verifyChannelAccess succeeded; it throws only for a missing token, a
\* missing channel id or a failed getMe.
C10_InitializeOutcome ==
    /\ [](last.op = "initialize"
            => /\ last.value \in {"true", "throw"}
               /\ last.value = "true" => isInitialized
               /\ last.value = "throw"
                    => \/ last.error = "BOT_TOKEN is required" /\ ~config.botToken
                       \/ last.error = "CHANNEL_ID is required" /\ ~config.channelId
                       \/ last.error = "getMe failed")
    /\ [][\A i \in 1..MaxInits :
            (inits[i] = "getChat" /\ inits'[i] # "getChat")
              => /\ config.botToken /\ config.channelId
                 /\ isInitialized'
                 /\ last'.op = "initialize"
                 /\ last'.value = "true"]_vars

C10_Witness ==
    /\ last.op = "initialize"
    /\ last.value = "true"
    /\ last.error = "ChannelVerificationFailed"
    /\ isInitialized

\* C11: while the engine has never been initialized, an initialize() call
\* that throws (missing token, missing channel id, getMe rejected) leaves
\* isInitialized false; as long as no initialize() has succeeded since,
\* no invocation holds a send or a retry delay and every broadcastUpdate
\* ends with the not-initialized error after zero sends.
C11_FailedInitializeKeepsUninitialized ==
    /\ [][(last'.op = "initialize" /\ last'.value = "throw" /\ ~isInitialized)
            => ~isInitialized' /\ initFailed']_vars
    /\ []((initFailed /\ ~isInitialized)
            => /\ \A i \in Active : calls[i].pc \notin {"send", "delay"}
               /\ last.op = "broadcastUpdate"
                    => /\ last.value = "throw"
                       /\ last.error = "NotInitialized"
                       /\ last.sends = 0)

C11_Witness ==
    /\ config.botToken /\ config.channelId
    /\ initFailed
    /\ ~isInitialized
    /\ last.op = "broadcastUpdate"
    /\ last.timer = 0
    /\ last.message = Hello
    /\ last.error = "NotInitialized"
    /\ last.sends = 0

\* C12: with config.retryAttempts = R and config.retryDelay = D, a
\* broadcastUpdate call whose first R sends all fail raises an error after
\* exactly R sends separated by R-1 delays of D, and no invocation makes
\* more than R sends.
C12_ConfiguredRetry ==
    /\ \A i \in Active : calls[i].sends <= config.retryAttempts
    /\ (/\ last.op = "broadcastUpdate"
        /\ last.initAtCall
        /\ NonEmptyText(last.message)
        /\ last.failN >= config.retryAttempts)
       => /\ last.value = "throw"
          /\ last.sends = config.retryAttempts
          /\ last.slept = (config.retryAttempts - 1) * config.retryDelay

\* C13: a start() call with scheduling enabled and a valid daily cron
\* expression registers the name "dailyUpdate" and no other, the task
\* registered under it is the daily job, armed, with the configured cron
\* expression and timezone, and isRunning is true; on an empty registry
\* the registry then holds exactly one job.
C13_StartRegistersDaily ==
    [][(/\ last'.op = "start"
        /\ config.enableScheduler
        /\ CronValidate(config.dailyUpdateTime))
       => /\ last'.value = "undefined"
          /\ DOMAIN jobs' = DOMAIN jobs \cup {"dailyUpdate"}
          /\ \A n \in DOMAIN jobs \ {"dailyUpdate"} : jobs'[n] = jobs[n]
          /\ jobs = EmptyJobs => Cardinality(DOMAIN jobs') = 1
          /\ LET job == timers'[jobs'["dailyUpdate"]]
             IN  /\ job.armed
                 /\ job.kind = "daily"
                 /\ job.cron = config.dailyUpdateTime
                 /\ job.timezone = config.timezone
          /\ isRunning']_vars

C13_Witness ==
    /\ last.op = "start"
    /\ last.value = "undefined"
    /\ config.enableScheduler
    /\ DOMAIN jobs = {"dailyUpdate"}
    /\ timers[jobs["dailyUpdate"]].armed
    /\ timers[jobs["dailyUpdate"]].timezone = "UTC"
    /\ isRunning

\* C14: a start() call with scheduling enabled and a daily cron expression
\* that fails validation throws, creates no cron task, leaves the registry
\* as it was and leaves isRunning false.
C14_InvalidDailyCron ==
    [][(/\ last'.op = "start"
        /\ config.enableScheduler
        /\ ~CronValidate(config.dailyUpdateTime))
       => /\ last'.value = "throw"
          /\ last'.escaped
          /\ jobs' = jobs
          /\ timers' = timers
          /\ ~isRunning']_vars

C14_Witness ==
    /\ last.op = "start"
    /\ last.value = "throw"
    /\ config.enableScheduler
    /\ DOMAIN jobs = {"x"}
    /\ timers[jobs["x"]].armed
    /\ ~isRunning

\* a broadcast of cron task t begins in this step: an invocation fired by
\* t takes a slot, or ends before its first await
Begins(t) ==
    \/ \E i \in 1..MaxCalls :
          calls[i].pc = "idle" /\ calls'[i].pc # "idle" /\ calls'[i].timer = t
    \/ /\ calls' = calls
       /\ last'.op \in {"broadcastUpdate", "sendDailyMarketSummary"}
       /\ last'.timer = t

\* a stopped cron task is never armed again and begins no broadcast
StoppedForGood ==
    \A t \in DOMAIN timers :
        ~timers[t].armed => ~timers'[t].armed /\ ~Begins(t)

C16_StopDoesNotCancel ==
    /\ [][last'.op \in {"stopJob", "stop", "scheduleCustomMessage"}
            => calls' = calls]_vars
    /\ []((IsBroadcastOutcome /\ last.timer # 0 /\ last.sends > 0)
            => /\ last.sends = Min(last.failN + 1, retryCount)
               /\ last.value = "result" <=> last.failN < retryCount
               /\ last.slept = (last.sends - 1) * retryDelay)

C16_Witness ==
    /\ last.op = "broadcastUpdate"
    /\ last.timer # 0
    /\ timers[last.timer].kind = "custom"
    /\ ~timers[last.timer].armed
    /\ last.value = "throw"
    /\ last.sends = retryCount

\* C17: a stopJob call that returns true leaves the cron task it found
\* disarmed; no cron task is armed again, and every broadcast a cron
\* task begins, it begins while armed.
C17_NoFiringAfterStopJob ==
    /\ [][(last'.op = "stopJob" /\ last'.value = "true")
            => /\ last'.name \in DOMAIN jobs
               /\ ~timers'[jobs[last'.name]].armed]_vars
    /\ [][\A t \in DOMAIN timers : timers'[t].armed => timers[t].armed]_vars
    /\ [][\A t \in DOMAIN timers : Begins(t) => timers[t].armed]_vars

C17_Witness ==
    /\ last.op = "stopJob"
    /\ last.value = "true"
    /\ \E i \in Active :
          /\ calls[i].timer # 0
          /\ timers[calls[i].timer].name = last.name
          /\ ~timers[calls[i].timer].armed
          /\ calls[i].pc = "delay"

\* C18: a directly invoked broadcastUpdate ends either with a result that
\* carries the message id of a provider send and a timestamp, or with an
\* error thrown to its caller; when the provider fails every send it
\* throws.  A failure stays with the callee only when a cron task made
\* the call.
C18_DirectCallOutcome ==
    /\ (last.op = "broadcastUpdate" /\ last.timer = 0)
       => /\ last.value \in {"result", "throw"}
          /\ last.value = "result"
               => /\ last.messageId \in MessageIds
                  /\ last.timestamp # "none"
                  /\ last.error = "none"
                  /\ last.sends = last.failN + 1
          /\ last.value = "throw"
               => /\ last.escaped
                  /\ last.error # "none"
                  /\ last.messageId = 0
          /\ (last.sends > 0 /\ last.failN >= retryCount) => last.value = "throw"
    /\ (IsBroadcastOutcome /\ last.value # "result")
       => /\ last.value = "throw"
          /\ last.escaped <=> last.timer = 0

C18_Witness ==
    /\ last.op = "broadcastUpdate"
    /\ last.timer = 0
    /\ last.value = "throw"
    /\ last.escaped
    /\ last.error = "FailedToBroadcast"
    /\ last.sends = retryCount
    /\ \E t \in DOMAIN timers : timers[t].armed

\* C19: when the market-data fetch of a sendDailyMarketSummary call
\* settles on an initialized engine, failed or not, the call issues the
\* first provider send of a generated, non-empty message; a directly
\* invoked sendDailyMarketSummary whose broadcast fails throws the
\* error of broadcastUpdate to its caller.
C19_DailyUsesFallback ==
    /\ [][\A i \in 1..MaxCalls :
            (calls[i].pc = "fetch" /\ calls'[i].pc # "fetch" /\ isInitialized)
              => /\ calls'[i].pc = "send"
                 /\ calls'[i].sends = 1
                 /\ calls'[i].message \in {GenerateDailyMessage(d) : d \in MarketData}
                 /\ NonEmptyText(calls'[i].message)]_vars
    /\ []((/\ last.op = "sendDailyMarketSummary"
           /\ last.timer = 0
           /\ last.value # "result")
          => /\ last.value = "throw"
             /\ last.escaped
             /\ last.error \in {"NotInitialized", "FailedToBroadcast"}
             /\ last.error = "FailedToBroadcast" => last.sends = retryCount)

C19_Witness ==
    /\ last.op = "sendDailyMarketSummary"
    /\ last.timer = 0
    /\ last.message = GenerateDailyMessage(FallbackData)
    /\ last.value = "throw"
    /\ last.escaped
    /\ last.error = "FailedToBroadcast"
    /\ last.sends = retryCount

\* the classification the contract gives a failure of the describe-chat
\* call
ClaimedVerifyClass(code) ==
    CASE code = 400 -> "InvalidChannelId"
      [] code = 403 -> "NoPermission"
      [] OTHER -> "ChannelVerificationFailed"

\* C20: when getChat fails, the error verifyChannelAccess raises follows
\* the provider's error code: 400 gives the invalid-channel error, 403 the
\* no-permission error, any other code and a response without a code the
\* generic channel-verification error.
C20_VerifyClassified ==
    (last.op = "initialize" /\ last.raw # NoError)
    => /\ Structured(last.raw) => last.error = ClaimedVerifyClass(last.raw.code)
       /\ ~Structured(last.raw) => last.error = "ChannelVerificationFailed"

\* C21: an invocation has at most one provider send that has not settled,
\* and exactly one while it awaits a send; its first send is attempt 1,
\* every later send is issued when a retry delay is over, as the attempt
\* after the one that failed, and a delay begins only when a send failed.
C21_OneSendInFlight ==
    /\ [](\A i \in Active :
            /\ calls[i].pending <= 1
            /\ calls[i].pending = 1 <=> calls[i].pc = "send")
    /\ [][\A i \in 1..MaxCalls :
            /\ (calls'[i].pc = "send" /\ calls[i].pc # "send")
                 => \/ calls'[i].attempt = 1 /\ calls[i].pc \in {"idle", "fetch"}
                    \/ /\ calls[i].pc = "delay"
                       /\ calls'[i].attempt = calls[i].attempt + 1
                       /\ calls'[i].sends = calls[i].sends + 1
            /\ (calls[i].pc = "send" /\ calls'[i] # calls[i] /\ calls'[i].pc # "idle")
                 => /\ calls'[i].pc = "delay"
                    /\ calls'[i].attempt = calls[i].attempt
                    /\ calls'[i].sends = calls[i].sends
                    /\ calls[i].attempt <= calls[i].failN]_vars

C21_Witness ==
    \E i \in Active :
        /\ calls[i].pc = "send"
        /\ calls[i].attempt = retryCount
        /\ calls[i].sends = retryCount
        /\ calls[i].pending = 1
        /\ calls[i].slept = (retryCount - 1) * retryDelay

\* C22: invocations do not wait for one another.  An invocation that
\* begins goes on to its first network call in the same step whatever the
\* other invocations are doing and leaves them as they are, and a
\* broadcast of a valid message on an initialized engine always reaches the
\* provider: it is never refused or queued because another is in progress.
C22_NotSerialized ==
    /\ [][\A i \in 1..MaxCalls :
            (calls[i].pc = "idle" /\ calls'[i].pc # "idle")
              => /\ calls'[i].pc \in {"send", "fetch"}
                 /\ \A j \in 1..MaxCalls \ {i} : calls'[j] = calls[j]]_vars
    /\ []((/\ IsBroadcastOutcome
           /\ last.initAtCall
           /\ (last.op = "broadcastUpdate" => NonEmptyText(last.message)))
          => /\ last.sends >= 1
             /\ last.error \in {"none", "FailedToBroadcast"})

C22_Witness ==
    \E i, j \in Active :
        /\ i # j
        /\ calls[i].timer # 0 /\ calls[j].timer # 0
        /\ timers[calls[i].timer].kind = "daily"
        /\ timers[calls[j].timer].kind = "custom"
        /\ calls[i].pc = "send" /\ calls[i].pending = 1
        /\ calls[j].pc = "send" /\ calls[j].pending = 1

\* C30: a firing leaves the cron tasks and the registry as they are, so
\* the task that fired stays armed, and an armed task can fire whenever a
\* slot is free, also while earlier firings of it are in progress.
C30_ArmedWhileFiring ==
    /\ [][\A t \in DOMAIN timers : Begins(t) => timers' = timers /\ jobs' = jobs]_vars
    /\ [](\A t \in DOMAIN timers :
            (timers[t].armed /\ FreeSlots # {}) => ENABLED Fire(t, 0))

C30_Witness ==
    \E i, j \in Active :
        /\ i # j
        /\ calls[i].timer # 0
        /\ calls[i].timer = calls[j].timer
        /\ timers[calls[i].timer].armed
        /\ calls[i].pc = "delay"
        /\ calls[j].pc = "send"

\* C23: getStatus() of the engine is enabled in every state, returns a
\* status object and throws nothing, reports initialized as isInitialized
\* is and the configured channel id, and changes no state; isInitialized
\* is false until an initialize() returns true and true from then on.
C23_BotGetStatus ==
    /\ [](ENABLED GetStatus)
    /\ [][last'.op = "getStatus"
            => /\ last'.value = "status"
               /\ last'.status.initialized = isInitialized
               /\ last'.status.channelId = config.channelId
               /\ UNCHANGED <<config, engineVars, calls, schedVars>>]_vars
    /\ [][isInitialized' # isInitialized
            => /\ isInitialized'
               /\ last'.op = "initialize"
               /\ last'.value = "true"]_vars

C23_Witness ==
    /\ last.op = "getStatus"
    /\ last.value = "status"
    /\ initFailed
    /\ ~last.status.initialized
    /\ \E i \in 1..MaxInits : inits[i] = "getMe"

\* C24: getStatus() of the scheduler changes no state; the jobCount it
\* reports is the number of registered jobs and its jobs map has one entry
\* for each registered name and no other.
C24_SchedulerGetStatus ==
    [][last'.op = "scheduler.getStatus"
        => /\ last'.value = "status"
           /\ last'.status.jobCount = Cardinality(DOMAIN jobs)
           /\ DOMAIN last'.status.jobs = DOMAIN jobs
           /\ last'.status.isRunning = isRunning
           /\ UNCHANGED <<config, engineVars, calls, schedVars>>]_vars

C24_Witness ==
    /\ last.op = "scheduler.getStatus"
    /\ last.status.jobCount = 2
    /\ DOMAIN last.status.jobs = {"dailyUpdate", "x"}
    /\ Len(timers) = 3

\* C25: in the server process nothing runs before initialize() has
\* succeeded: while the engine is uninitialized no cron task exists, the
\* registry is empty, the scheduler is not running and no broadcast is in
\* progress; every scheduler call, direct broadcast and firing happens on
\* an initialized engine; after a failed initialize() none ever happens.
C25_InitializeBeforeServing ==
    /\ [](~isInitialized
            => /\ timers = << >>
               /\ jobs = EmptyJobs
               /\ ~isRunning
               /\ Active = {})
    /\ [](initFailed => ~isInitialized)
    /\ [][last'.op \notin {"none", "initialize"} => isInitialized]_vars
    /\ [][\A t \in DOMAIN timers : Begins(t) => isInitialized]_vars

C25_Witness ==
    /\ initFailed
    /\ last.op = "initialize"
    /\ last.value = "throw"
    /\ last.error = "getMe failed"
    /\ config.enableScheduler
    /\ timers = << >>
    /\ Active = {}

\* C26: an invocation sleeps retryDelay after each failed send it retries
\* and at no other time: with k sends made it has slept (k-1) x retryDelay
\* while it awaits the k-th send and when it ends, by success or by
\* failure, and every sleep adds exactly retryDelay.
C26_FixedDelay ==
    /\ [](\A i \in Active :
            /\ calls[i].pc = "fetch" => calls[i].slept = 0
            /\ calls[i].pc = "send"
                 => calls[i].slept = (calls[i].sends - 1) * retryDelay
            /\ calls[i].pc = "delay"
                 => calls[i].slept = calls[i].sends * retryDelay)
    /\ [](IsBroadcastOutcome
            => last.slept = (IF last.sends = 0 THEN 0
                             ELSE (last.sends - 1) * retryDelay))
    /\ [][\A i \in 1..MaxCalls :
            (calls[i].pc # "idle" /\ calls'[i].pc # "idle")
              => calls'[i].slept - calls[i].slept \in {0, retryDelay}]_vars

C26_Witness ==
    /\ last.op = "broadcastUpdate"
    /\ last.value = "throw"
    /\ last.sends = retryCount
    /\ last.slept = 2 * retryDelay
    /\ retryDelay = 2000

\* C27: when a broadcast has used up its retry budget, the error that
\* sendMessageWithRetry throws into broadcastUpdate is the error of the
\* last failed send; the errors of the earlier sends play no part.
C27_LastErrorPropagates ==
    (IsBroadcastOutcome /\ last.value = "throw" /\ last.sends >= 1)
    => /\ Len(last.errors) = last.sends
       /\ last.sends = retryCount
       /\ last.raw = last.errors[last.sends]
       /\ last.error = BroadcastError(last.errors[last.sends])

C27_Witness ==
    /\ last.op = "broadcastUpdate"
    /\ last.value = "throw"
    /\ Len(last.errors) = retryCount
    /\ last.errors[1] = ApiError(403)
    /\ last.errors[2] = NetworkError
    /\ last.errors[retryCount] = ApiError(429)
    /\ last.raw = ApiError(429)

\* C28: a broadcast that succeeds at its k-th send after k-1 failures
\* returns a result whose messageId is the message_id the provider gave
\* for that send; the result names no error, the call made k sends and
\* makes none afterwards.
C28_SuccessAfterFailures ==
    /\ []((IsBroadcastOutcome /\ last.value = "result")
            => /\ last.messageId = last.provided
               /\ last.messageId \in MessageIds
               /\ last.sends = last.failN + 1
               /\ last.sends <= retryCount
               /\ Len(last.errors) = last.sends - 1
               /\ last.error = "none"
               /\ last.raw = NoError
               /\ ~last.escaped)
    /\ [][\A i \in 1..MaxCalls :
            (calls[i].pc = "send" /\ calls'[i] # calls[i] /\ last'.value = "result")
              => calls'[i] = Idle]_vars

C28_Witness ==
    /\ last.op = "broadcastUpdate"
    /\ last.value = "result"
    /\ last.sends = retryCount
    /\ last.failN = retryCount - 1
    /\ last.messageId = 102
    /\ Len(last.errors) = retryCount - 1

\* C29: scheduleCustomMessage replaces a registered job in one step: the
\* task that was registered under the name is stopped and the new armed
\* task is registered under it in the same step, in which no invocation
\* moves and no other name changes; in every state each registered name
\* leads to a task of that name, so no state in between, with the name
\* absent or with the old and the new task both armed, is ever seen.
C29_RegistrationAtomic ==
    /\ [](\A n \in DOMAIN jobs :
            jobs[n] \in DOMAIN timers /\ timers[jobs[n]].name = n)
    /\ [][(/\ last'.op = "scheduleCustomMessage"
           /\ last'.value = "true"
           /\ last'.pre)
          => /\ last'.name \in DOMAIN jobs
             /\ last'.name \in DOMAIN jobs'
             /\ jobs'[last'.name] = Len(timers')
             /\ jobs'[last'.name] # jobs[last'.name]
             /\ timers'[jobs'[last'.name]].armed
             /\ ~timers'[jobs[last'.name]].armed
             /\ ArmedNamed(timers', last'.name)
                  = (ArmedNamed(timers, last'.name) \ {jobs[last'.name]})
                      \cup {Len(timers')}
             /\ \A n \in DOMAIN jobs \ {last'.name} :
                   n \in DOMAIN jobs' /\ jobs'[n] = jobs[n]
             /\ DOMAIN jobs' = DOMAIN jobs
             /\ calls' = calls
             /\ isRunning' = isRunning]_vars

C29_Witness ==
    /\ last.op = "scheduleCustomMessage"
    /\ last.value = "true"
    /\ last.pre
    /\ Active # {}
    /\ ArmedNamed(timers, last.name) = {jobs[last.name]}
    /\ \E t \in DOMAIN timers :
          /\ t # jobs[last.name]
          /\ timers[t].name = last.name
          /\ timers[t].message # timers[jobs[last.name]].message
          /\ ~timers[t].armed

ArmedTasks == {t \in DOMAIN timers : timers[t].armed}
RegisteredTasks == {jobs[n] : n \in DOMAIN jobs}

\* C31: the armed cron tasks are exactly the tasks the registry holds: no
\* armed task is out of reach of stopJob and stop.
C31_ArmedEqualsRegistry == ArmedTasks = RegisteredTasks

\* C32: while isRunning is false no cron task is armed, so no scheduled
\* broadcast can fire.
C32_NotRunningNothingArmed == ~isRunning => ArmedTasks = {}

\* C33: isInitialized never goes from true to false, whatever a later
\* initialize() call does, and no broadcastUpdate that is called while it
\* is true ends with the not-initialized error.
C33_InitializedMonotonic ==
    /\ [][isInitialized => isInitialized']_vars
    /\ [][(isInitialized /\ last'.op = "broadcastUpdate")
            => last'.error # "NotInitialized"]_vars
    /\ []((IsBroadcastOutcome /\ last.initAtCall) => last.error # "NotInitialized")

C33_Witness ==
    /\ isInitialized
    /\ last.op = "initialize"
    /\ last.value = "throw"
    /\ last.error = "getMe failed"
    /\ ~initFailed

\* C34: a broadcast that is in progress has an attempt number within
\* 1..retryCount, which a retry raises by exactly one and nothing lowers;
\* when the provider settles every send and every delay fires, every
\* invocation ends.
C34_BroadcastTerminates ==
    /\ [](\A i \in Active :
            calls[i].pc \in {"send", "delay"} => calls[i].attempt \in 1..retryCount)
    /\ [][\A i \in 1..MaxCalls :
            (calls[i].pc # "idle" /\ calls'[i].pc # "idle" /\ calls'[i] # calls[i])
              => calls'[i].attempt
                   = (IF calls[i].pc = "delay" THEN calls[i].attempt + 1
                      ELSE calls[i].attempt)]_vars
    /\ \A i \in 1..MaxCalls : (calls[i].pc # "idle") ~> (calls[i].pc = "idle")

C34_Witness ==
    /\ last.op = "broadcastUpdate"
    /\ last.value = "throw"
    /\ last.sends = retryCount
    /\ last.failN >= retryCount
    /\ \E i \in Active : calls[i].pc = "delay" /\ calls[i].attempt = retryCount - 1

\* C35: with several invocations in progress each keeps its own count: a
\* step of one invocation leaves every other invocation's record as it is,
\* no invocation makes more than retryCount sends, and an invocation that
\* reached the provider ends after min(N+1, retryCount) sends, N being the
\* number of its own sends the provider fails.
C35_IndependentBudgets ==
    /\ [](\A i \in Active :
            /\ calls[i].sends <= Min(calls[i].failN + 1, retryCount)
            /\ calls[i].pc \in {"send", "delay"} => calls[i].attempt = calls[i].sends)
    /\ []((IsBroadcastOutcome /\ last.sends >= 1)
            => last.sends = Min(last.failN + 1, retryCount))
    /\ [][\A i, j \in 1..MaxCalls :
            (i # j /\ calls'[i] # calls[i]) => calls'[j] = calls[j]]_vars

C35_Witness ==
    /\ IsBroadcastOutcome
    /\ last.value = "throw"
    /\ last.sends = retryCount
    /\ \E i \in Active :
          /\ calls[i].pc = "send"
          /\ calls[i].attempt = 1
          /\ calls[i].failN = 0

\* C36: a stopJob or scheduleCustomMessage call for one name leaves every
\* job registered under another name in the registry with the same task,
\* and leaves every cron task of another name, armed flag and message
\* included, as it was.
C36_OtherNamesUntouched ==
    [][(last'.op \in {"stopJob", "scheduleCustomMessage"})
       => /\ \A n \in DOMAIN jobs \ {last'.name} :
                /\ n \in DOMAIN jobs'
                /\ jobs'[n] = jobs[n]
                /\ timers'[jobs[n]] = timers[jobs[n]]
          /\ \A t \in DOMAIN timers :
                timers[t].name # last'.name => timers'[t] = timers[t]
          /\ DOMAIN jobs' \subseteq DOMAIN jobs \cup {last'.name}]_vars

C36_Witness ==
    /\ last.op = "stopJob"
    /\ last.value = "true"
    /\ last.name \notin DOMAIN jobs
    /\ \E n \in DOMAIN jobs :
          /\ n # last.name
          /\ timers[jobs[n]].armed
          /\ timers[jobs[n]].kind = "custom"
          /\ timers[jobs[n]].message = MsgB

C38_DailyJobReplaced ==
    [][(/\ last'.op \in {"stopJob", "scheduleCustomMessage"}
        /\ last'.name = "dailyUpdate"
        /\ last'.value = "true")
       => \A t \in DOMAIN timers' : timers'[t].kind = "daily" => ~timers'[t].armed]_vars

\* the user id a configured authorized id names
RECURSIVE ParseId(_)
ParseId(chars) ==
    IF chars = <<>> THEN 0
    ELSE 10 * ParseId(SubSeq(chars, 1, Len(chars) - 1))
           + (CHOOSE d \in 0..9 : Digits[d + 1] = chars[Len(chars)])

IdConfigured ==
    config.authorizedUserId.type = "string" /\ config.authorizedUserId.chars # <<>>

MayCommand(userId) ==
    ~IdConfigured \/ userId = ParseId(config.authorizedUserId.chars)

\* C39: a handler of /broadcast or /broadcast_daily goes past its
\* authorization test only for a sender that is the configured authorized
\* user, or when none is configured; a command of any other sender ends
\* there, whatever its text, with no invocation started, no provider send
\* to the channel and no fetch.
C39_OnlyAuthorizedCommands ==
    /\ [](\A i \in Active : calls[i].user # 0 => MayCommand(calls[i].user))
    /\ []((last.user # 0 /\ ~MayCommand(last.user))
            => /\ last.error = "NotAuthorized"
               /\ last.sends = 0
               /\ last.fetches = 0)
    /\ [][(last'.user # 0 /\ ~MayCommand(last'.user)) => calls' = calls]_vars

C39_Witness ==
    /\ isInitialized
    /\ config.authorizedUserId = Str(<<"7">>)
    /\ last.op = "/broadcast"
    /\ last.user = 71
    /\ last.error = "NotAuthorized"
    /\ MatchesBroadcastDaily(last.message.chars)
    /\ last.sends = 0

====
